---- MODULE Spec2Model ----
(***************************************************************************)
(* RescueLink backend: the incident lifecycle (alerts, crash events, SOS   *)
(* requests), the coupled vehicle statuses and the role checks of the      *)
(* route handlers.  Every handler is one action; the store is the set of   *)
(* tables the handlers read and write through the database client.         *)
(***************************************************************************)
EXTENDS Integers, FiniteSets, Sequences, TLC

(* ------------------------------ bounds --------------------------------- *)
\* rows the alerts table may ever receive (ids are a serial, never reused)
MaxAlerts == 1
\* rows the alerts table may ever receive in the fleet specification
MaxFleetAlerts == 2
\* rows the crash_events table may ever receive
MaxCrash == 1
\* rows the sos_requests table may ever receive
MaxSos == 1
\* users that hold a token (ids 1..NumUsers)
NumUsers == 2
\* rows of the vehicles table (ids 1..NumVehicles)
NumVehicles == 2
\* rows of the responders table (ids 1..NumResponders)
NumResponders == 1

\* emergency contacts ever created
MaxContacts == 2

(* --------------------------- JS value encoding ------------------------- *)
\* null / a falsy id (0): `x || null` maps both to null
NULL == 0
\* a field the request body does not carry, for id- and number-valued fields
UNDEF == -1
\* a field the request body does not carry, for string-valued fields
UNDEFINED == "undefined"

\* a latitude or longitude of a request body: its JS type and its value
Coord(t, v) == [t |-> t, v |-> v]
NoCoord == Coord("undefined", 0)

\* the position fields of a request body that reports none
NoReport == [type |-> UNDEFINED, latitude |-> NoCoord, longitude |-> NoCoord]

UserIds == 1..NumUsers
Vehicles == 1..NumVehicles
Responders == 1..NumResponders

\* the roles a user row can carry
validRoles == {"user", "admin", "rescuer", "dispatcher", "driver"}

\* req.user as decoded from the bearer token: {id, role}.  Every user id with role
\* 'user', and every other role once (no handler reads the id of a non-'user' actor
\* except to record it as the owner of a row it creates)
Actors == [id : UserIds, role : {"user"}] \cup [id : {1}, role : validRoles \ {"user"}]

validStatuses == {"pending", "responding", "resolved", "cancelled"}
validAlertTypes == {"medical", "fire", "accident", "crime", "natural_disaster", "other"}
validSeverities == {"low", "medium", "high", "critical"}

\* status strings a request body may carry: the four valid ones and one that is not
StatusInputs == validStatuses \cup {"bogus"}

VARIABLES
    alerts,        \* table alerts: id -> row
    nextAlertId,   \* serial of alerts.id
    crash_events,  \* table crash_events: id -> row
    nextCrashId,   \* serial of crash_events.id
    sos_requests,  \* table sos_requests: id -> row
    nextSosId,     \* serial of sos_requests.id
    vehicles,      \* table vehicles: id -> status
    resp,          \* the last request handled and the response it was given
    io,            \* socketInstance: the module's `let io`, undefined until setIO stores the server
    pc,            \* the position of the server script's startup sequence
    setIOCalls,    \* the calls of setIO so far
    inflight,      \* the requests suspended at a store call: slot -> the handler's locals
    emergency_contacts,  \* table emergency_contacts: id -> row
    nextContactId, \* serial of emergency_contacts.id
    users          \* table users: id -> role

vars == <<alerts, nextAlertId, crash_events, nextCrashId, sos_requests, nextSosId, vehicles, resp,
          io, pc, setIOCalls, inflight, emergency_contacts, nextContactId, users>>

alertVars == <<alerts, nextAlertId>>
crashVars == <<crash_events, nextCrashId>>
sosVars == <<sos_requests, nextSosId>>
bootVars == <<io, pc, setIOCalls>>
contactVars == <<emergency_contacts, nextContactId>>
\* what the incident handlers, run one request at a time, never touch
sideVars == <<inflight, contactVars, users>>

(* ------------------------------ the store ------------------------------ *)
EmptyTable == [i \in {} |-> 0]

\* .insert([row]): the row is stored under the next serial id
Insert(table, id, row) == [i \in DOMAIN table \cup {id} |-> IF i = id THEN row ELSE table[i]]

\* .delete().eq('id', id): no row matching is no error
Delete(table, id) == [i \in DOMAIN table \ {id} |-> table[i]]

\* .eq('id', id).single(): an error result with no data unless exactly one row matches
SingleError(table, id) == id \notin DOMAIN table

\* a row as a response carries it
Row(src, id, r) == [src |-> src, id |-> id, user_id |-> r.user_id, status |-> r.status,
                    assigned_vehicle_id |-> IF src = "alert" THEN r.assigned_vehicle_id ELSE NULL,
                    assigned_responder_id |-> IF src = "alert" THEN r.assigned_responder_id ELSE NULL]

\* the response record: the request (op, actor, target id, status and vehicle it
\* named, q the user_id a list query named, rsp the responder and arg the position
\* it named), the HTTP code, the rows of the body (vst: the status of the vehicle
\* embedded in the row) and the event broadcast; prev is the vehicle the handler
\* read before its write, failed the calls after the incident write that returned
\* an error or threw, again whether the request repeats the successful status
\* request answered just before, trail how far the requests answered last follow
\* the dispatch scenario
Blank(op, actor, id, code, st, veh, data, emit) ==
    [op |-> op, role |-> actor.role, uid |-> actor.id, id |-> id, code |-> code,
     st |-> st, veh |-> veh, q |-> UNDEF, rsp |-> UNDEF, arg |-> NoReport, vst |-> "none",
     prev |-> NULL, failed |-> {}, again |-> FALSE, trail |-> 0,
     data |-> data, emit |-> emit]

\* the dispatch scenario, request by request: a user creates an alert, a dispatcher
\* assigns it a vehicle, a rescuer sets it responding, a dispatcher sets it
\* resolved, the user asks for its deletion; the position the request just
\* answered reaches, 0 if it does not continue the scenario
ScenarioStep(op, actor, id, code, st, veh) ==
    IF op = "createAlert" /\ actor.role = "user" /\ code = 201 THEN 1
    ELSE IF resp.trail = 0 \/ id # resp.id THEN 0
    ELSE IF resp.trail = 1 /\ op = "assign" /\ actor.role = "dispatcher" /\ veh \in Vehicles THEN 2
    ELSE IF resp.trail = 2 /\ op = "patchStatus" /\ actor.role = "rescuer" /\ st = "responding" THEN 3
    ELSE IF resp.trail = 3 /\ op = "patchStatus" /\ actor.role = "dispatcher" /\ st = "resolved" THEN 4
    ELSE IF /\ resp.trail = 4 /\ op = "deleteAlert" /\ actor.role = "user"
            /\ id \in DOMAIN alerts /\ alerts[id].user_id = actor.id THEN 5
    ELSE 0

Response(op, actor, id, code, st, veh, data, emit) ==
    [Blank(op, actor, id, code, st, veh, data, emit)
     EXCEPT !.trail = ScenarioStep(op, actor, id, code, st, veh)]

\* a variant of the early return that broadcasts the refused request
RefusalBroadcast(op, actor, id, code) == Response(op, actor, id, code, UNDEFINED, UNDEF, {}, "alert:updated")

\* a response that ends the request early: an error code, no rows, no broadcast
Refusal(op, actor, id, code) == Response(op, actor, id, code, UNDEFINED, UNDEF, {}, "none")

NoActor == [id |-> 0, role |-> "none"]

\* the slots of the requests that may be suspended at a store call at the same time
Requests == {1, 2}

\* a row not read yet
NoRow == [user_id |-> 0, status |-> "none", assigned_vehicle_id |-> NULL, assigned_responder_id |-> NULL]

\* a slot no request has taken: the locals of a handler, none set (cur, upd and
\* vst are currentAlert, updatedAlert and its embedded vehicle status; owner is
\* ownerId; lap tells that the request began while another one was under way)
Idle == [op |-> "idle", pc |-> "idle", role |-> "none", uid |-> 0, id |-> 0, vehicle_id |-> UNDEF,
         responder_id |-> UNDEF, is_primary |-> UNDEFINED, owner |-> 0, cur |-> NULL,
         upd |-> NoRow, vst |-> "none", failed |-> {}, lap |-> FALSE]

\* the users table at start: an admin (id 1) and regular users
Accounts == [u \in UserIds |-> IF u = 1 THEN "admin" ELSE "user"]

\* the store and the response log before the first request
EmptyStore ==
    /\ alerts = EmptyTable
    /\ nextAlertId = 1
    /\ crash_events = EmptyTable
    /\ nextCrashId = 1
    /\ sos_requests = EmptyTable
    /\ nextSosId = 1
    /\ vehicles = [v \in Vehicles |-> "available"]
    /\ resp = Blank("none", NoActor, 0, 0, UNDEFINED, UNDEF, {}, "none")
    /\ inflight = [p \in Requests |-> Idle]
    /\ emergency_contacts = EmptyTable
    /\ nextContactId = 1
    /\ users = Accounts

\* the server once its script has run to the end: the socket server stored, the
\* HTTP server listening
Init ==
    /\ EmptyStore
    /\ io = "io"
    /\ pc = "listening"
    /\ setIOCalls = 1

(* --------------------------- socketInstance ---------------------------- *)
\* the outcome of getIO() that is not a value
THROWN == "Socket.io not initialized"

\* a variant of setIO that drops its argument
setIODropped(ref, newIO) == ref

\* setIO(newIO): the reference after the call
setIO(ref, newIO) == newIO

\* getIO(): the stored reference, or the error it throws while none is stored
getIO(ref) == IF ref = UNDEFINED THEN THROWN ELSE ref

\* a variant of the end of a handler that sends the response without a broadcast
EmitNothing(r) == [r EXCEPT !.emit = "none"]

\* const io = getIO(); io.emit(event, data); res.json(data) at the end of a handler:
\* getIO throwing lands in the handler's catch, which answers 500 with no rows
Emit(r) ==
    IF getIO(io) = THROWN
    THEN [r EXCEPT !.code = 500, !.data = {}, !.emit = "none", !.failed = @ \cup {"getIO"}, !.trail = 0]
    ELSE r

\* a variant of the handlers' treatment of a failed vehicle write that throws it
Rethrown(r, failed) ==
    IF failed = {} THEN r
    ELSE [r EXCEPT !.code = 500, !.data = {}, !.emit = "none", !.failed = failed]

\* the handlers' treatment of the vehicle writes that returned an error: the result
\* is not read (or only logged) and the handler goes on
Swallowed(r, failed) == [r EXCEPT !.failed = failed]

(* ---------------------------- server startup --------------------------- *)
\* the server script before its last three statements
Loaded ==
    /\ EmptyStore
    /\ io = UNDEFINED
    /\ pc = "initSocket"
    /\ setIOCalls = 0

\* initSocket(io): registers the connection handlers on the socket server
InitSocket ==
    /\ pc = "initSocket"
    /\ pc' = "setIO"
    /\ UNCHANGED <<alertVars, crashVars, sosVars, vehicles, resp, io, setIOCalls, sideVars>>

\* setIO(io)
SetIO ==
    /\ pc = "setIO"
    /\ io' = setIO(io, "io")
    /\ setIOCalls' = setIOCalls + 1
    /\ pc' = "listen"
    /\ UNCHANGED <<alertVars, crashVars, sosVars, vehicles, resp, sideVars>>

\* server.listen(PORT, ...): from here on requests reach the routers
Listen ==
    /\ pc = "listen"
    /\ pc' = "listening"
    /\ UNCHANGED <<alertVars, crashVars, sosVars, vehicles, resp, io, setIOCalls, sideVars>>

(* ------------------------- routes/alerts ------------------------------- *)
\* JS falsiness of a string-valued body field
Falsy(x) == x \in {UNDEFINED, ""}

\* columns an insert leaves out take the column default (null)
WithDefaults(row) ==
    [user_id |-> row.user_id, status |-> row.status,
     assigned_vehicle_id |-> IF row.assigned_vehicle_id = UNDEF THEN NULL ELSE row.assigned_vehicle_id,
     assigned_responder_id |-> IF row.assigned_responder_id = UNDEF THEN NULL ELSE row.assigned_responder_id]

\* bodies of POST /alerts: the required fields, present or not, valid or not, and
\* two fields the handler does not read (status, assigned_vehicle_id)
GoodAlert == [alert_type |-> "medical", severity |-> "high", title |-> "t", location |-> "l",
              status |-> UNDEFINED, assigned_vehicle_id |-> UNDEF]
AlertBodies ==
    {GoodAlert,
     [GoodAlert EXCEPT !.status = "resolved", !.assigned_vehicle_id = 1],
     [GoodAlert EXCEPT !.title = UNDEFINED],
     [GoodAlert EXCEPT !.alert_type = "bogus"],
     [GoodAlert EXCEPT !.severity = "bogus", !.status = "resolved"]}

\* a variant of alertData that copies status and assignment from the body
alertDataSpread(actor, body) ==
    [user_id |-> actor.id,
     status |-> IF body.status = UNDEFINED THEN "pending" ELSE body.status,
     assigned_vehicle_id |-> body.assigned_vehicle_id,
     assigned_responder_id |-> UNDEF]

\* alertData of POST /alerts: only the fields the handler picks, status 'pending'
alertData(actor, body) ==
    [user_id |-> actor.id, status |-> "pending",
     assigned_vehicle_id |-> UNDEF, assigned_responder_id |-> UNDEF]

\* POST /api/v1/alerts
CreateAlert(actor, body) ==
    IF Falsy(body.alert_type) \/ Falsy(body.severity) \/ Falsy(body.title) \/ Falsy(body.location)
    THEN /\ resp' = Refusal("createAlert", actor, 0, 400)
         /\ UNCHANGED <<bootVars, sideVars, alertVars, crashVars, sosVars, vehicles>>
    ELSE IF body.alert_type \notin validAlertTypes \/ body.severity \notin validSeverities
    THEN /\ resp' = Refusal("createAlert", actor, 0, 400)
         /\ UNCHANGED <<bootVars, sideVars, alertVars, crashVars, sosVars, vehicles>>
    ELSE /\ LET row == WithDefaults(alertData(actor, body))
            IN /\ alerts' = Insert(alerts, nextAlertId, row)
               /\ resp' = Emit(Response("createAlert", actor, nextAlertId, 201, body.status,
                                        body.assigned_vehicle_id,
                                        {Row("alert", nextAlertId, row)}, "alert:new"))
         /\ nextAlertId' = nextAlertId + 1
         /\ UNCHANGED <<bootVars, sideVars, crashVars, sosVars, vehicles>>

\* bodies of PUT /alerts/:id: any column may be named; at most one per request here
NoPut == [status |-> UNDEFINED, assigned_vehicle_id |-> UNDEF, assigned_responder_id |-> UNDEF, user_id |-> UNDEF]
PutBodies ==
    {NoPut}
    \cup {[NoPut EXCEPT !.status = s] : s \in StatusInputs}
    \cup {[NoPut EXCEPT !.assigned_vehicle_id = v] : v \in Vehicles \cup {NULL}}
    \cup {[NoPut EXCEPT !.assigned_responder_id = r] : r \in Responders \cup {NULL}}
    \cup {[NoPut EXCEPT !.user_id = u] : u \in UserIds}

\* .update(updateData): the columns the update names replace the row's
Merge(row, upd) ==
    [user_id |-> IF upd.user_id = UNDEF THEN row.user_id ELSE upd.user_id,
     status |-> IF upd.status = UNDEFINED THEN row.status ELSE upd.status,
     assigned_vehicle_id |-> IF upd.assigned_vehicle_id = UNDEF THEN row.assigned_vehicle_id
                             ELSE upd.assigned_vehicle_id,
     assigned_responder_id |-> IF upd.assigned_responder_id = UNDEF THEN row.assigned_responder_id
                               ELSE upd.assigned_responder_id]

\* PUT /api/v1/alerts/:id
PutAlert(actor, id, body) ==
    IF actor.role \notin {"admin", "dispatcher"}
    THEN /\ resp' = Refusal("putAlert", actor, id, 403)
         /\ UNCHANGED <<bootVars, sideVars, alertVars, crashVars, sosVars, vehicles>>
    ELSE IF SingleError(alerts, id)
    THEN /\ resp' = Refusal("putAlert", actor, id, 500)
         /\ UNCHANGED <<bootVars, sideVars, alertVars, crashVars, sosVars, vehicles>>
    ELSE /\ alerts' = [alerts EXCEPT ![id] = Merge(@, body)]
         /\ resp' = Emit(Response("putAlert", actor, id, 200, body.status, body.assigned_vehicle_id,
                                  {Row("alert", id, Merge(alerts[id], body))}, "alert:updated"))
         /\ UNCHANGED <<bootVars, sideVars, nextAlertId, crashVars, sosVars, vehicles>>

\* a variant of the role gate of PATCH /alerts/:id/status that lets every role through
StatusRolesAny == validRoles

\* the roles PATCH /alerts/:id/status lets through
StatusRoles == {"admin", "dispatcher", "rescuer"}

\* a variant of the coupled vehicle write that moves the vehicle one step along
\* available, assigned, responding instead of setting it
VehicleAfterStatusStep(veh, status, v, fails) ==
    IF status = "responding" /\ v # NULL /\ ~fails
    THEN [veh EXCEPT ![v] = IF @ = "available" THEN "assigned" ELSE "responding"]
    ELSE IF status = "resolved" /\ v # NULL /\ ~fails THEN [veh EXCEPT ![v] = "available"]
    ELSE veh

\* a variant of the coupled vehicle write that marks the vehicle 'assigned' on responding
VehicleAfterStatusStale(veh, status, v, fails) ==
    IF status = "responding" /\ v # NULL /\ ~fails THEN [veh EXCEPT ![v] = "assigned"]
    ELSE IF status = "resolved" /\ v # NULL /\ ~fails THEN [veh EXCEPT ![v] = "available"]
    ELSE veh

\* the coupled vehicle write of PATCH /alerts/:id/status; a failed write changes nothing
VehicleAfterStatus(veh, status, v, fails) ==
    IF status = "responding" /\ v # NULL /\ ~fails THEN [veh EXCEPT ![v] = "responding"]
    ELSE IF status = "resolved" /\ v # NULL /\ ~fails THEN [veh EXCEPT ![v] = "available"]
    ELSE veh

\* PATCH /api/v1/alerts/:id/status
PatchStatus(actor, id, status, vfail) ==
    IF status \notin validStatuses
    THEN /\ resp' = Refusal("patchStatus", actor, id, 400)
         /\ UNCHANGED <<bootVars, sideVars, alertVars, crashVars, sosVars, vehicles>>
    ELSE IF actor.role \notin StatusRoles
    THEN /\ resp' = Refusal("patchStatus", actor, id, 403)
         /\ UNCHANGED <<bootVars, sideVars, alertVars, crashVars, sosVars, vehicles>>
    ELSE IF SingleError(alerts, id)
    THEN /\ resp' = Refusal("patchStatus", actor, id, 500)
         /\ UNCHANGED <<bootVars, sideVars, alertVars, crashVars, sosVars, vehicles>>
    ELSE LET data == [alerts[id] EXCEPT !.status = status]
         IN /\ alerts' = [alerts EXCEPT ![id] = data]
            /\ vehicles' = VehicleAfterStatus(vehicles, status, data.assigned_vehicle_id, vfail)
            /\ resp' = Emit(Swallowed([Response("patchStatus", actor, id, 200, status, UNDEF,
                                                 {Row("alert", id, data)}, "alert:status_updated")
                                        EXCEPT !.again = (/\ resp.op = "patchStatus" /\ resp.code = 200
                                                          /\ resp.id = id /\ resp.st = status)],
                                       IF vfail /\ status \in {"responding", "resolved"}
                                          /\ data.assigned_vehicle_id # NULL
                                       THEN {"sync"} ELSE {}))
            /\ UNCHANGED <<bootVars, sideVars, nextAlertId, crashVars, sosVars>>

\* a variant of the coupled vehicle writes of assign that never frees the previous vehicle
VehiclesAfterAssignKeep(veh, cur, vehicle_id, freeFails, assignFails) ==
    IF vehicle_id # UNDEF /\ vehicle_id # NULL /\ ~assignFails
    THEN [veh EXCEPT ![vehicle_id] = "assigned"]
    ELSE veh

\* the coupled vehicle writes of PATCH /alerts/:id/assign, in the handler's order:
\* the previous vehicle (if replaced) to 'available', then the new one to 'assigned'
VehiclesAfterAssign(veh, cur, vehicle_id, freeFails, assignFails) ==
    LET freed == IF cur # NULL /\ cur # vehicle_id /\ ~freeFails
                 THEN [veh EXCEPT ![cur] = "available"] ELSE veh
    IN IF vehicle_id # UNDEF /\ vehicle_id # NULL /\ ~assignFails
       THEN [freed EXCEPT ![vehicle_id] = "assigned"]
       ELSE freed

\* the vehicle writes of assign that were issued and returned an error
FailedWrites(cur, vehicle_id, freeFails, assignFails) ==
    (IF freeFails /\ cur # NULL /\ cur # vehicle_id THEN {"free"} ELSE {})
    \cup (IF assignFails /\ vehicle_id # UNDEF /\ vehicle_id # NULL THEN {"assign"} ELSE {})

\* x || null
OrNull(x) == IF x = UNDEF THEN NULL ELSE x

\* a variant of the role gate of PATCH /alerts/:id/assign that lets the rescuer through
AssignRolesStaff == {"admin", "dispatcher", "rescuer"}

\* the roles PATCH /alerts/:id/assign lets through
AssignRoles == {"admin", "dispatcher"}

\* vehicle:assigned_vehicle_id(..., status) in the select of the alert update: the
\* status the referenced vehicle has in the store when the update returns
Embedded(veh, v) == IF v \in DOMAIN veh THEN veh[v] ELSE "none"

\* PATCH /api/v1/alerts/:id/assign
Assign(actor, id, vehicle_id, responder_id, freeFails, assignFails) ==
    IF actor.role \notin AssignRoles
    THEN /\ resp' = Refusal("assign", actor, id, 403)
         /\ UNCHANGED <<bootVars, sideVars, alertVars, crashVars, sosVars, vehicles>>
    ELSE IF SingleError(alerts, id)
    THEN /\ resp' = Refusal("assign", actor, id, 500)
         /\ UNCHANGED <<bootVars, sideVars, alertVars, crashVars, sosVars, vehicles>>
    ELSE LET currentAlert == alerts[id]
             updatedAlert == [alerts[id] EXCEPT !.assigned_vehicle_id = OrNull(vehicle_id),
                                                !.assigned_responder_id = OrNull(responder_id)]
         IN /\ alerts' = [alerts EXCEPT ![id] = updatedAlert]
            /\ vehicles' = VehiclesAfterAssign(vehicles, currentAlert.assigned_vehicle_id,
                                               vehicle_id, freeFails, assignFails)
            /\ resp' = Emit(Swallowed([Response("assign", actor, id, 200, UNDEFINED, vehicle_id,
                                                 {Row("alert", id, updatedAlert)}, "alert:assigned")
                                        EXCEPT !.prev = currentAlert.assigned_vehicle_id,
                                               !.rsp = responder_id,
                                               !.vst = Embedded(vehicles, updatedAlert.assigned_vehicle_id)],
                                       FailedWrites(currentAlert.assigned_vehicle_id, vehicle_id,
                                                    freeFails, assignFails)))
            /\ UNCHANGED <<bootVars, sideVars, nextAlertId, crashVars, sosVars>>

\* the old vehicle was replaced: currentAlert?.assigned_vehicle_id &&
\* currentAlert.assigned_vehicle_id !== vehicle_id; a variant that never frees
ReplacedNever(cur, vehicle_id) == FALSE

Replaced(cur, vehicle_id) == cur # NULL /\ cur # vehicle_id

\* if (vehicle_id)
Named(vehicle_id) == vehicle_id # UNDEF /\ vehicle_id # NULL

\* another request is between two of its store calls
Underway(p) == \E q \in Requests \ {p} : inflight[q].pc \notin {"idle", "done"}

\* the end of PATCH /alerts/:id/assign: getIO, emit, res.json(updatedAlert)
AssignRespond(p, r) ==
    /\ resp' = Emit(Swallowed([Response("assign", [id |-> r.uid, role |-> r.role], r.id, 200,
                                         UNDEFINED, r.vehicle_id,
                                         {Row("alert", r.id, r.upd)}, "alert:assigned")
                                EXCEPT !.prev = r.cur, !.rsp = r.responder_id, !.vst = r.vst],
                               r.failed))
    /\ inflight' = [inflight EXCEPT ![p] = [r EXCEPT !.pc = "done"]]

\* PATCH /alerts/:id/assign up to its first store call: the role gate and the
\* select of currentAlert
AssignSelect(p, actor, id, vehicle_id, responder_id) ==
    /\ inflight[p].pc = "idle"
    /\ IF actor.role \notin AssignRoles
       THEN /\ resp' = Refusal("assign", actor, id, 403)
            /\ inflight' = [inflight EXCEPT ![p].op = "assign", ![p].pc = "done"]
       ELSE IF SingleError(alerts, id)
       THEN /\ resp' = Refusal("assign", actor, id, 500)
            /\ inflight' = [inflight EXCEPT ![p].op = "assign", ![p].pc = "done"]
       ELSE /\ inflight' = [inflight EXCEPT ![p] =
                   [Idle EXCEPT !.op = "assign", !.pc = "update", !.role = actor.role,
                                !.uid = actor.id, !.id = id, !.vehicle_id = vehicle_id,
                                !.responder_id = responder_id,
                                !.cur = alerts[id].assigned_vehicle_id,
                                !.lap = Underway(p)]]
            /\ UNCHANGED resp
    /\ UNCHANGED <<bootVars, contactVars, users, alertVars, crashVars, sosVars, vehicles>>

\* the second store call: the update of the alert, selecting updatedAlert
AssignUpdate(p) ==
    LET r == inflight[p]
    IN /\ r.op = "assign" /\ r.pc = "update"
       /\ IF SingleError(alerts, r.id)
          THEN /\ resp' = Refusal("assign", [id |-> r.uid, role |-> r.role], r.id, 500)
               /\ inflight' = [inflight EXCEPT ![p].pc = "done"]
               /\ UNCHANGED alerts
          ELSE LET updatedAlert == [alerts[r.id] EXCEPT
                                       !.assigned_vehicle_id = OrNull(r.vehicle_id),
                                       !.assigned_responder_id = OrNull(r.responder_id)]
                   got == [r EXCEPT !.upd = updatedAlert,
                                    !.vst = Embedded(vehicles, updatedAlert.assigned_vehicle_id)]
               IN /\ alerts' = [alerts EXCEPT ![r.id] = updatedAlert]
                  /\ IF Replaced(r.cur, r.vehicle_id)
                     THEN inflight' = [inflight EXCEPT ![p] = [got EXCEPT !.pc = "free"]] /\ UNCHANGED resp
                     ELSE IF Named(r.vehicle_id)
                     THEN inflight' = [inflight EXCEPT ![p] = [got EXCEPT !.pc = "mark"]] /\ UNCHANGED resp
                     ELSE AssignRespond(p, got)
       /\ UNCHANGED <<bootVars, contactVars, users, nextAlertId, crashVars, sosVars, vehicles>>

\* the third store call: the previous vehicle back to 'available'
AssignFree(p, freeFails) ==
    LET r == inflight[p]
        got == IF freeFails THEN [r EXCEPT !.failed = @ \cup {"free"}] ELSE r
    IN /\ r.op = "assign" /\ r.pc = "free"
       /\ vehicles' = IF freeFails THEN vehicles ELSE [vehicles EXCEPT ![r.cur] = "available"]
       /\ IF Named(r.vehicle_id)
          THEN inflight' = [inflight EXCEPT ![p] = [got EXCEPT !.pc = "mark"]] /\ UNCHANGED resp
          ELSE AssignRespond(p, got)
       /\ UNCHANGED <<bootVars, contactVars, users, alertVars, crashVars, sosVars>>

\* the fourth store call: the new vehicle to 'assigned'
AssignMark(p, assignFails) ==
    LET r == inflight[p]
        got == IF assignFails THEN [r EXCEPT !.failed = @ \cup {"assign"}] ELSE r
    IN /\ r.op = "assign" /\ r.pc = "mark"
       /\ vehicles' = IF assignFails THEN vehicles ELSE [vehicles EXCEPT ![r.vehicle_id] = "assigned"]
       /\ AssignRespond(p, got)
       /\ UNCHANGED <<bootVars, contactVars, users, alertVars, crashVars, sosVars>>

\* a variant of DELETE /alerts/:id that frees the vehicle the deleted alert held
DeleteAlertCascade(actor, id) ==
    IF actor.role # "admin"
    THEN /\ resp' = Refusal("deleteAlert", actor, id, 403)
         /\ UNCHANGED <<bootVars, sideVars, alertVars, crashVars, sosVars, vehicles>>
    ELSE /\ alerts' = Delete(alerts, id)
         /\ vehicles' = IF id \in DOMAIN alerts /\ alerts[id].assigned_vehicle_id # NULL
                        THEN [vehicles EXCEPT ![alerts[id].assigned_vehicle_id] = "available"]
                        ELSE vehicles
         /\ resp' = Emit(Response("deleteAlert", actor, id, 200, UNDEFINED, UNDEF, {}, "alert:deleted"))
         /\ UNCHANGED <<bootVars, sideVars, nextAlertId, crashVars, sosVars>>

\* DELETE /api/v1/alerts/:id
DeleteAlert(actor, id) ==
    IF actor.role # "admin"
    THEN /\ resp' = Refusal("deleteAlert", actor, id, 403)
         /\ UNCHANGED <<bootVars, sideVars, alertVars, crashVars, sosVars, vehicles>>
    ELSE /\ alerts' = Delete(alerts, id)
         /\ resp' = Emit(Response("deleteAlert", actor, id, 200, UNDEFINED, UNDEF, {}, "alert:deleted"))
         /\ UNCHANGED <<bootVars, sideVars, nextAlertId, crashVars, sosVars, vehicles>>

\* the rows of a table a list query selects: status filter, then the owner filter
Select(src, table, status, owner) ==
    {Row(src, i, table[i]) : i \in {j \in DOMAIN table :
        /\ (status = UNDEFINED \/ table[j].status = status)
        /\ (owner = UNDEF \/ table[j].user_id = owner)}}

\* a variant of the owner filter of GET /alerts that honours user_id before the role
OwnerFilterQueryFirst(actor, user_id) ==
    IF user_id # UNDEF THEN user_id
    ELSE IF actor.role = "user" THEN actor.id
    ELSE UNDEF

\* the owner filter of GET /alerts: role 'user' sees its own rows, the others may name a user
OwnerFilter(actor, user_id) ==
    IF actor.role = "user" THEN actor.id
    ELSE IF user_id # UNDEF THEN user_id
    ELSE UNDEF

\* GET /api/v1/alerts
GetAlerts(actor, status, user_id) ==
    /\ resp' = [Response("getAlerts", actor, 0, 200, UNDEFINED, UNDEF,
                         Select("alert", alerts, status, OwnerFilter(actor, user_id)), "none")
                EXCEPT !.q = user_id]
    /\ UNCHANGED <<bootVars, sideVars, alertVars, crashVars, sosVars, vehicles>>

\* GET /api/v1/alerts/:id
GetAlert(actor, id) ==
    /\ IF SingleError(alerts, id)
       THEN resp' = Refusal("getAlert", actor, id, 500)
       ELSE IF actor.role = "user" /\ alerts[id].user_id # actor.id
       THEN resp' = Refusal("getAlert", actor, id, 403)
       ELSE resp' = Response("getAlert", actor, id, 200, UNDEFINED, UNDEF,
                             {Row("alert", id, alerts[id])}, "none")
    /\ UNCHANGED <<bootVars, sideVars, alertVars, crashVars, sosVars, vehicles>>

(* --------------------------- list windows ------------------------------ *)
Min(a, b) == IF a < b THEN a ELSE b
Max(a, b) == IF a > b THEN a ELSE b

\* .range(offset, offset + limit - 1) / .slice(offset, offset + limit) / .limit(n) of
\* rows ordered by a timestamp: the timestamps are not part of the state, so every
\* set of the window's size is a possible page
Windows(rows, limit, offset) ==
    {page \in SUBSET rows : Cardinality(page) = Min(limit, Max(0, Cardinality(rows) - offset))}

\* the owner filter of the crash, SOS and combined lists: role 'user' sees its own rows
OwnRows(actor) == IF actor.role = "user" THEN actor.id ELSE UNDEF

\* limit and offset of a list request (20 and 0 are the handlers' defaults)
Pages == {<<20, 0>>, <<1, 0>>, <<1, 1>>}

(* -------------------------- routes/crash ------------------------------- *)

\* the position fields of the body of POST /crash or POST /sos
Report(body) ==
    [type |-> IF "type" \in DOMAIN body THEN body.type ELSE UNDEFINED,
     latitude |-> body.latitude, longitude |-> body.longitude]

\* !x for a coordinate: undefined, the number 0 and the empty string are falsy
CoordFalsy(c) == c.t = "undefined" \/ (c.t = "number" /\ c.v = 0)

\* bodies of POST /crash
GoodCrash == [latitude |-> Coord("number", 14), longitude |-> Coord("number", 120), status |-> UNDEFINED]
CrashBodies ==
    {GoodCrash,
     [GoodCrash EXCEPT !.status = "resolved"],
     [GoodCrash EXCEPT !.latitude = Coord("number", 0)],
     [GoodCrash EXCEPT !.latitude = NoCoord],
     [GoodCrash EXCEPT !.longitude = NoCoord, !.status = "resolved"]}

\* crashEvent of POST /crash
crashEvent(actor, body) == [user_id |-> actor.id, status |-> "pending"]

\* POST /api/v1/crash
CreateCrash(actor, body) ==
    IF CoordFalsy(body.latitude) \/ CoordFalsy(body.longitude)
    THEN /\ resp' = [Refusal("createCrash", actor, 0, 400) EXCEPT !.arg = Report(body)]
         /\ UNCHANGED <<bootVars, sideVars, alertVars, crashVars, sosVars, vehicles>>
    ELSE /\ LET row == crashEvent(actor, body)
            IN /\ crash_events' = Insert(crash_events, nextCrashId, row)
               /\ resp' = [Response("createCrash", actor, nextCrashId, 201, body.status, UNDEF,
                                    {Row("crash", nextCrashId, row)}, "none")
                           EXCEPT !.arg = Report(body)]
         /\ nextCrashId' = nextCrashId + 1
         /\ UNCHANGED <<bootVars, sideVars, alertVars, sosVars, vehicles>>

\* GET /api/v1/crash
GetCrash(actor, status, limit, offset) ==
    /\ \E page \in Windows(Select("crash", crash_events, status, OwnRows(actor)), limit, offset) :
          resp' = Response("getCrash", actor, 0, 200, UNDEFINED, UNDEF, page, "none")
    /\ UNCHANGED <<bootVars, sideVars, alertVars, crashVars, sosVars, vehicles>>

\* bodies of PUT and PATCH /crash/:id: a status and, or not, a user_id
CrashUpdates == [status : StatusInputs, user_id : {UNDEF, NumUsers}]

\* a variant of the ownership gate of the crash routes that lets everyone through
CrashGateOpen(actor, existing) == TRUE

\* the ownership gate of the crash routes: the owner, or anyone who is not a regular user
CrashGate(actor, existing) == ~(actor.role = "user" /\ existing.user_id # actor.id)

\* the handler shared by PUT and PATCH /crash/:id: fetch, gate, strip the immutable
\* fields (user_id among them) from the body, update
UpdateCrash(op, actor, id, updates) ==
    IF SingleError(crash_events, id)
    THEN /\ resp' = Refusal(op, actor, id, 404)
         /\ UNCHANGED <<bootVars, sideVars, alertVars, crashVars, sosVars, vehicles>>
    ELSE IF ~CrashGate(actor, crash_events[id])
    THEN /\ resp' = Refusal(op, actor, id, 403)
         /\ UNCHANGED <<bootVars, sideVars, alertVars, crashVars, sosVars, vehicles>>
    ELSE LET data == [crash_events[id] EXCEPT !.status = updates.status]
         IN /\ crash_events' = [crash_events EXCEPT ![id] = data]
            /\ resp' = Response(op, actor, id, 200, updates.status, UNDEF,
                                {Row("crash", id, data)}, "none")
            /\ UNCHANGED <<bootVars, sideVars, alertVars, nextCrashId, sosVars, vehicles>>

\* PUT /api/v1/crash/:id
PutCrash(actor, id, updates) == UpdateCrash("putCrash", actor, id, updates)

\* PATCH /api/v1/crash/:id
PatchCrash(actor, id, updates) == UpdateCrash("patchCrash", actor, id, updates)

\* DELETE /api/v1/crash/:id
DeleteCrash(actor, id) ==
    IF SingleError(crash_events, id)
    THEN /\ resp' = Refusal("deleteCrash", actor, id, 404)
         /\ UNCHANGED <<bootVars, sideVars, alertVars, crashVars, sosVars, vehicles>>
    ELSE IF ~CrashGate(actor, crash_events[id])
    THEN /\ resp' = Refusal("deleteCrash", actor, id, 403)
         /\ UNCHANGED <<bootVars, sideVars, alertVars, crashVars, sosVars, vehicles>>
    ELSE /\ crash_events' = Delete(crash_events, id)
         /\ resp' = Response("deleteCrash", actor, id, 200, UNDEFINED, UNDEF, {}, "none")
         /\ UNCHANGED <<bootVars, sideVars, alertVars, nextCrashId, sosVars, vehicles>>

(* --------------------------- routes/sos -------------------------------- *)
\* bodies of POST /sos
GoodSos == [type |-> "medical", latitude |-> Coord("number", 14), longitude |-> Coord("number", 120),
            status |-> UNDEFINED]
SosBodies ==
    {GoodSos,
     [GoodSos EXCEPT !.status = "resolved", !.latitude = Coord("number", 0)],
     [GoodSos EXCEPT !.type = UNDEFINED],
     [GoodSos EXCEPT !.longitude = NoCoord],
     [GoodSos EXCEPT !.latitude = Coord("number", 91)],
     [GoodSos EXCEPT !.latitude = Coord("string", 14)]}

\* the type and range check of POST /sos
InvalidCoords(latitude, longitude) ==
    \/ latitude.t # "number" \/ latitude.v < -90 \/ latitude.v > 90
    \/ longitude.t # "number" \/ longitude.v < -180 \/ longitude.v > 180

\* sosData of POST /sos
sosData(actor, body) == [user_id |-> actor.id, status |-> "pending"]

\* POST /api/v1/sos
CreateSos(actor, body) ==
    IF Falsy(body.type) \/ body.latitude.t = "undefined" \/ body.longitude.t = "undefined"
    THEN /\ resp' = [Refusal("createSos", actor, 0, 400) EXCEPT !.arg = Report(body)]
         /\ UNCHANGED <<bootVars, sideVars, alertVars, crashVars, sosVars, vehicles>>
    ELSE IF InvalidCoords(body.latitude, body.longitude)
    THEN /\ resp' = [Refusal("createSos", actor, 0, 400) EXCEPT !.arg = Report(body)]
         /\ UNCHANGED <<bootVars, sideVars, alertVars, crashVars, sosVars, vehicles>>
    ELSE /\ LET row == sosData(actor, body)
            IN /\ sos_requests' = Insert(sos_requests, nextSosId, row)
               /\ resp' = [Response("createSos", actor, nextSosId, 201, body.status, UNDEF,
                                    {Row("sos", nextSosId, row)}, "none")
                           EXCEPT !.arg = Report(body)]
         /\ nextSosId' = nextSosId + 1
         /\ UNCHANGED <<bootVars, sideVars, alertVars, crashVars, vehicles>>

\* GET /api/v1/sos
GetSos(actor, per_page) ==
    /\ \E page \in Windows(Select("sos", sos_requests, UNDEFINED, OwnRows(actor)), per_page, 0) :
          resp' = Response("getSos", actor, 0, 200, UNDEFINED, UNDEF, page, "none")
    /\ UNCHANGED <<bootVars, sideVars, alertVars, crashVars, sosVars, vehicles>>

(* ------------------------- routes/allAlerts ---------------------------- *)
\* buildBaseQuery(table, timestampField): the status filter and the role's owner filter
buildBaseQuery(src, table, actor, status) == Select(src, table, status, OwnRows(actor))

\* GET /api/v1/allAlerts
GetAllAlerts(actor, type, status, limit, offset) ==
    LET alertRows == IF type \in {"alert", "all"}
                     THEN buildBaseQuery("alert", alerts, actor, status) ELSE {}
        crashRows == IF type \in {"crash", "all"}
                     THEN buildBaseQuery("crash", crash_events, actor, status) ELSE {}
    IN /\ \E paginated \in Windows(alertRows \cup crashRows, limit, offset) :
             resp' = Response("getAllAlerts", actor, 0, 200, UNDEFINED, UNDEF, paginated, "none")
       /\ UNCHANGED <<bootVars, sideVars, alertVars, crashVars, sosVars, vehicles>>

(* --------------------------- specifications ---------------------------- *)
\* the status filter of a list request: none, or a status
StatusQueries == {UNDEFINED, "pending", "resolved"}

\* the alert lifecycle with its vehicles: every handler of routes/alerts
Next ==
    \/ \E actor \in Actors, body \in AlertBodies :
          nextAlertId <= MaxAlerts /\ CreateAlert(actor, body)
    \/ \E actor \in Actors, id \in 1..MaxAlerts, body \in PutBodies : PutAlert(actor, id, body)
    \/ \E actor \in Actors, id \in 1..MaxAlerts, status \in StatusInputs \cup {UNDEFINED},
          vfail \in BOOLEAN : PatchStatus(actor, id, status, vfail)
    \/ \E actor \in Actors, id \in 1..MaxAlerts, vehicle_id \in Vehicles \cup {UNDEF},
          responder_id \in Responders \cup {UNDEF}, freeFails \in BOOLEAN, assignFails \in BOOLEAN :
          Assign(actor, id, vehicle_id, responder_id, freeFails, assignFails)
    \/ \E actor \in Actors, id \in 1..MaxAlerts : DeleteAlert(actor, id)
    \/ \E actor \in Actors, status \in StatusQueries, user_id \in UserIds \cup {UNDEF} :
          GetAlerts(actor, status, user_id)
    \/ \E actor \in Actors, id \in 1..MaxAlerts : GetAlert(actor, id)

Spec == Init /\ [][Next]_vars

\* the fleet view of the alert lifecycle: several alerts competing for the vehicles,
\* driven by one reporter, a dispatcher and an admin, every store write succeeding
Reporter == [id |-> 1, role |-> "user"]
Dispatcher == [id |-> 1, role |-> "dispatcher"]
Admin == [id |-> 1, role |-> "admin"]

NextFleet ==
    \/ nextAlertId <= MaxFleetAlerts /\ CreateAlert(Reporter, GoodAlert)
    \/ \E id \in 1..MaxFleetAlerts, status \in validStatuses : PatchStatus(Dispatcher, id, status, FALSE)
    \/ \E id \in 1..MaxFleetAlerts, vehicle_id \in Vehicles \cup {UNDEF} :
          Assign(Dispatcher, id, vehicle_id, UNDEF, FALSE, FALSE)
    \/ \E id \in 1..MaxFleetAlerts : DeleteAlert(Admin, id)

SpecFleet == Init /\ [][NextFleet]_vars

\* the access view of the three incident tables: every role against every handler
\* that creates, lists, reads, updates or deletes an incident; the alerts carry no
\* assignment here (PATCH /alerts/:id/assign belongs to Next)
AccessPutBodies == {b \in PutBodies : b.assigned_vehicle_id = UNDEF /\ b.assigned_responder_id = UNDEF}

NextAccess ==
    \/ \E actor \in Actors, body \in AlertBodies :
          nextAlertId <= MaxAlerts /\ CreateAlert(actor, body)
    \/ \E actor \in Actors, body \in CrashBodies :
          nextCrashId <= MaxCrash /\ CreateCrash(actor, body)
    \/ \E actor \in Actors, body \in SosBodies :
          nextSosId <= MaxSos /\ CreateSos(actor, body)
    \/ \E actor \in Actors, id \in 1..MaxAlerts, body \in AccessPutBodies : PutAlert(actor, id, body)
    \/ \E actor \in Actors, id \in 1..MaxAlerts, status \in StatusInputs \cup {UNDEFINED} :
          PatchStatus(actor, id, status, FALSE)
    \/ \E actor \in Actors, id \in 1..MaxAlerts : DeleteAlert(actor, id)
    \/ \E actor \in Actors, status \in StatusQueries, user_id \in UserIds \cup {UNDEF} :
          GetAlerts(actor, status, user_id)
    \/ \E actor \in Actors, id \in 1..MaxAlerts : GetAlert(actor, id)
    \/ \E actor \in Actors, status \in StatusQueries, page \in Pages :
          GetCrash(actor, status, page[1], page[2])
    \/ \E actor \in Actors, id \in 1..MaxCrash, updates \in CrashUpdates : PutCrash(actor, id, updates)
    \/ \E actor \in Actors, id \in 1..MaxCrash, updates \in CrashUpdates : PatchCrash(actor, id, updates)
    \/ \E actor \in Actors, id \in 1..MaxCrash : DeleteCrash(actor, id)
    \/ \E actor \in Actors, per_page \in {1, 15} : GetSos(actor, per_page)
    \/ \E actor \in Actors, type \in {"alert", "crash", "all"}, status \in StatusQueries, page \in Pages :
          GetAllAlerts(actor, type, status, page[1], page[2])

SpecAccess == Init /\ [][NextAccess]_vars

\* the server from the end of its script's declarations: the startup sequence, then
\* the alert lifecycle driven by a reporter, a dispatcher and an admin
NextBoot ==
    \/ InitSocket
    \/ SetIO
    \/ Listen
    \/ pc = "listening" /\ nextAlertId <= MaxAlerts /\ CreateAlert(Reporter, GoodAlert)
    \/ \E id \in 1..MaxAlerts, status \in {"responding", "cancelled"} :
          pc = "listening" /\ PutAlert(Dispatcher, id, [NoPut EXCEPT !.status = status])
    \/ \E id \in 1..MaxAlerts, status \in validStatuses, vfail \in BOOLEAN :
          pc = "listening" /\ PatchStatus(Dispatcher, id, status, vfail)
    \/ \E id \in 1..MaxAlerts, vehicle_id \in Vehicles \cup {UNDEF} :
          pc = "listening" /\ Assign(Dispatcher, id, vehicle_id, UNDEF, FALSE, FALSE)
    \/ \E actor \in {Reporter, Admin}, id \in 1..MaxAlerts :
          pc = "listening" /\ DeleteAlert(actor, id)

SpecBoot == Loaded /\ [][NextBoot]_vars

\* the lifecycle engine alone: alerts are created, moved between statuses and
\* assigned by a dispatcher, one request at a time, never deleted, every store
\* write succeeding
NextLifecycle ==
    \/ nextAlertId <= MaxFleetAlerts /\ CreateAlert(Reporter, GoodAlert)
    \/ \E id \in 1..MaxFleetAlerts, status \in validStatuses : PatchStatus(Dispatcher, id, status, FALSE)
    \/ \E id \in 1..MaxFleetAlerts, vehicle_id \in Vehicles \cup {UNDEF} :
          Assign(Dispatcher, id, vehicle_id, UNDEF, FALSE, FALSE)

SpecLifecycle == Init /\ [][NextLifecycle]_vars

\* two assign requests by a dispatcher, each run once and interleaved at their
\* store calls, on alerts created beforehand; every store write succeeding
NextRace ==
    \/ /\ nextAlertId <= MaxFleetAlerts
       /\ \A p \in Requests : inflight[p].pc = "idle"
       /\ CreateAlert(Reporter, GoodAlert)
    \/ \E p \in Requests, id \in 1..MaxFleetAlerts, vehicle_id \in Vehicles \cup {UNDEF} :
          AssignSelect(p, Dispatcher, id, vehicle_id, UNDEF)
    \/ \E p \in Requests : AssignUpdate(p)
    \/ \E p \in Requests : AssignFree(p, FALSE)
    \/ \E p \in Requests : AssignMark(p, FALSE)

SpecRace == Init /\ [][NextRace]_vars

(* -------------------------- emergency contacts -------------------------- *)
\* req.user of a request whose token was issued from the current users row
Token(u) == [id |-> u, role |-> users[u]]

\* bodies of POST /emergency-contacts: whether name, relationship and
\* phone_number are all there, is_primary, and the user_id an admin may name
ContactBodies ==
    [filled : BOOLEAN, is_primary : {"true", "false", UNDEFINED}, user_id : UserIds \cup {UNDEF}]

\* the answer of an emergency-contacts or users request
Answer(op, actor, id, code) == Blank(op, actor, id, code, UNDEFINED, UNDEF, {}, "none")

\* POST /emergency-contacts up to its first store call: validation, ownerId and
\* the select of the owner's users row
PostContactSelect(p, actor, body) ==
    LET ownerId == IF body.user_id # UNDEF /\ actor.role = "admin" THEN body.user_id ELSE actor.id
        is_primary == IF body.is_primary = UNDEFINED THEN "false" ELSE body.is_primary
    IN /\ inflight[p].pc = "idle"
       /\ IF ~body.filled
          THEN resp' = Answer("postContact", actor, 0, 400) /\ UNCHANGED inflight
          ELSE IF body.user_id # UNDEF /\ actor.role # "admin"
          THEN resp' = Answer("postContact", actor, 0, 403) /\ UNCHANGED inflight
          ELSE IF ownerId \notin DOMAIN users
          THEN resp' = Answer("postContact", actor, 0, 400) /\ UNCHANGED inflight
          ELSE /\ inflight' = [inflight EXCEPT ![p] =
                      [Idle EXCEPT !.op = "postContact",
                                   !.pc = IF is_primary = "true" THEN "clear" ELSE "insert",
                                   !.role = actor.role, !.uid = actor.id, !.id = NULL,
                                   !.is_primary = is_primary, !.owner = ownerId,
                                   !.lap = Underway(p)]]
               /\ UNCHANGED resp
       /\ UNCHANGED <<bootVars, contactVars, users, alertVars, crashVars, sosVars, vehicles>>

\* clearOtherPrimaryContacts(userId, excludeContactId): one update of every other
\* primary contact of the user to is_primary false
clearOtherPrimaryContacts(table, userId, excludeContactId) ==
    [c \in DOMAIN table |->
        IF /\ table[c].user_id = userId /\ table[c].is_primary
           /\ (excludeContactId = NULL \/ c # excludeContactId)
        THEN [table[c] EXCEPT !.is_primary = FALSE]
        ELSE table[c]]

\* the call of clearOtherPrimaryContacts by POST and by PUT
ClearPrimaries(p) ==
    LET r == inflight[p]
    IN /\ r.pc = "clear"
       /\ emergency_contacts' = clearOtherPrimaryContacts(emergency_contacts, r.owner, r.id)
       /\ inflight' = [inflight EXCEPT ![p].pc = IF r.op = "postContact" THEN "insert" ELSE "update"]
       /\ UNCHANGED <<bootVars, nextContactId, users, resp, alertVars, crashVars, sosVars, vehicles>>

\* the insert of POST /emergency-contacts and its 201 answer
PostContactInsert(p) ==
    LET r == inflight[p]
    IN /\ r.op = "postContact" /\ r.pc = "insert"
       /\ emergency_contacts' = Insert(emergency_contacts, nextContactId,
                                       [user_id |-> r.owner, is_primary |-> r.is_primary = "true"])
       /\ nextContactId' = nextContactId + 1
       /\ resp' = Answer("postContact", [id |-> r.uid, role |-> r.role], nextContactId, 201)
       /\ inflight' = [inflight EXCEPT ![p] = Idle]
       /\ UNCHANGED <<bootVars, users, alertVars, crashVars, sosVars, vehicles>>

\* PUT /emergency-contacts/:id up to its first store call: the select of the
\* existing contact and the permission check
PutContactSelect(p, actor, contactId, is_primary) ==
    /\ inflight[p].pc = "idle"
    /\ IF SingleError(emergency_contacts, contactId)
       THEN resp' = Answer("putContact", actor, contactId, 404) /\ UNCHANGED inflight
       ELSE IF actor.role # "admin" /\ emergency_contacts[contactId].user_id # actor.id
       THEN resp' = Answer("putContact", actor, contactId, 403) /\ UNCHANGED inflight
       ELSE /\ inflight' = [inflight EXCEPT ![p] =
                   [Idle EXCEPT !.op = "putContact",
                                !.pc = IF is_primary = "true" THEN "clear" ELSE "update",
                                !.role = actor.role, !.uid = actor.id, !.id = contactId,
                                !.is_primary = is_primary,
                                !.owner = emergency_contacts[contactId].user_id,
                                !.lap = Underway(p)]]
            /\ UNCHANGED resp
    /\ UNCHANGED <<bootVars, contactVars, users, alertVars, crashVars, sosVars, vehicles>>

\* the update of PUT /emergency-contacts/:id and its answer
PutContactUpdate(p) ==
    LET r == inflight[p]
        actor == [id |-> r.uid, role |-> r.role]
    IN /\ r.op = "putContact" /\ r.pc = "update"
       /\ IF SingleError(emergency_contacts, r.id)
          THEN /\ resp' = Answer("putContact", actor, r.id, 500)
               /\ UNCHANGED emergency_contacts
          ELSE /\ emergency_contacts' =
                      IF r.is_primary = UNDEFINED THEN emergency_contacts
                      ELSE [emergency_contacts EXCEPT ![r.id].is_primary = (r.is_primary = "true")]
               /\ resp' = Answer("putContact", actor, r.id, 200)
       /\ inflight' = [inflight EXCEPT ![p] = Idle]
       /\ UNCHANGED <<bootVars, nextContactId, users, alertVars, crashVars, sosVars, vehicles>>

\* the emergency-contacts router serving create and update requests of every
\* account, two at a time, interleaved at their store calls
NextContacts ==
    \/ \E p \in Requests, u \in DOMAIN users, body \in ContactBodies :
          /\ nextContactId + Cardinality({q \in Requests : inflight[q].op = "postContact"}) <= MaxContacts
          /\ PostContactSelect(p, Token(u), body)
    \/ \E p \in Requests : ClearPrimaries(p)
    \/ \E p \in Requests : PostContactInsert(p)
    \/ \E p \in Requests, u \in DOMAIN users, contactId \in 1..MaxContacts,
          is_primary \in {"true", "false", UNDEFINED} :
          PutContactSelect(p, Token(u), contactId, is_primary)
    \/ \E p \in Requests : PutContactUpdate(p)

SpecContacts == Init /\ [][NextContacts]_vars

(* --------------------------------- users -------------------------------- *)
\* isAdmin: the middleware of every users route
isAdmin(actor) == actor.role = "admin"

\* role values of the body of PUT /users/:id (undefined: not named)
PutRoles == validRoles \cup {UNDEFINED}

\* PUT /api/v1/users/:id
PutUser(actor, id, role) ==
    /\ IF ~isAdmin(actor)
       THEN resp' = Answer("putUser", actor, id, 403) /\ UNCHANGED users
       ELSE IF SingleError(users, id)
       THEN resp' = Answer("putUser", actor, id, 500) /\ UNCHANGED users
       ELSE /\ users' = IF role = UNDEFINED THEN users ELSE [users EXCEPT ![id] = role]
            /\ resp' = [Answer("putUser", actor, id, 200) EXCEPT !.st = role]
    /\ UNCHANGED <<bootVars, inflight, contactVars, alertVars, crashVars, sosVars, vehicles>>

\* PATCH /api/v1/users/:id/role
PatchRole(actor, id, role) ==
    /\ IF ~isAdmin(actor)
       THEN resp' = Answer("patchRole", actor, id, 403) /\ UNCHANGED users
       ELSE IF role \notin validRoles
       THEN resp' = Answer("patchRole", actor, id, 400) /\ UNCHANGED users
       ELSE IF id = actor.id
       THEN resp' = Answer("patchRole", actor, id, 400) /\ UNCHANGED users
       ELSE IF SingleError(users, id)
       THEN resp' = Answer("patchRole", actor, id, 500) /\ UNCHANGED users
       ELSE /\ users' = [users EXCEPT ![id] = role]
            /\ resp' = [Answer("patchRole", actor, id, 200) EXCEPT !.st = role]
    /\ UNCHANGED <<bootVars, inflight, contactVars, alertVars, crashVars, sosVars, vehicles>>

\* DELETE /api/v1/users/:id
DeleteUser(actor, id) ==
    /\ IF ~isAdmin(actor)
       THEN resp' = Answer("deleteUser", actor, id, 403) /\ UNCHANGED users
       ELSE IF id = actor.id
       THEN resp' = Answer("deleteUser", actor, id, 400) /\ UNCHANGED users
       ELSE /\ users' = Delete(users, id)
            /\ resp' = Answer("deleteUser", actor, id, 200)
    /\ UNCHANGED <<bootVars, inflight, contactVars, alertVars, crashVars, sosVars, vehicles>>

\* the users router serving every account that still has its row, each with a
\* token carrying its current role
NextUsers ==
    \/ \E u \in DOMAIN users, id \in UserIds, role \in PutRoles : PutUser(Token(u), id, role)
    \/ \E u \in DOMAIN users, id \in UserIds, role \in validRoles \cup {"bogus"} :
          PatchRole(Token(u), id, role)
    \/ \E u \in DOMAIN users, id \in UserIds : DeleteUser(Token(u), id)

SpecUsers == Init /\ [][NextUsers]_vars

(* ------------------------------ properties ----------------------------- *)
Terminal == {"resolved", "cancelled"}
NonTerminal == {"pending", "responding"}

\* the alerts that hold vehicle v while pending or responding
ActiveHolders(v) ==
    {i \in DOMAIN alerts : alerts[i].assigned_vehicle_id = v /\ alerts[i].status \in NonTerminal}

\* C1: in every reachable state each vehicle is the assigned_vehicle_id of at most
\* one alert whose status is pending or responding.
C1_AtMostOneActiveHolder == \A v \in Vehicles : Cardinality(ActiveHolders(v)) <= 1

\* C2: the status of every stored incident (alert, crash event, SOS request) is one
\* of pending, responding, resolved, cancelled.
C2_StatusInEnum ==
    /\ \A i \in DOMAIN alerts : alerts[i].status \in validStatuses
    /\ \A i \in DOMAIN crash_events : crash_events[i].status \in validStatuses
    /\ \A i \in DOMAIN sos_requests : sos_requests[i].status \in validStatuses

ReadOps == {"getAlerts", "getAlert", "getCrash", "getAllAlerts"}

\* C3: no list request (GET alerts, GET crash, GET allAlerts) and no single get
\* (GET alerts/:id) answers an actor of role 'user' with a row whose owner is not
\* the actor.
C3_UserReadsOnlyOwn ==
    (resp.op \in ReadOps /\ resp.role = "user") => \A r \in resp.data : r.user_id = resp.uid

\* C3 witness: a 'user' was answered a non-empty combined list while an incident of
\* another owner was stored.
C3_Witness ==
    /\ resp.op = "getAllAlerts" /\ resp.role = "user" /\ resp.data # {}
    /\ \E i \in DOMAIN crash_events : crash_events[i].user_id # resp.uid

\* C4: once an alert is resolved or cancelled, a status request on it does not
\* succeed and leaves the alerts table as it was.
C4_TerminalIsFinal ==
    [][(/\ resp'.op = "patchStatus"
        /\ resp'.id \in DOMAIN alerts
        /\ alerts[resp'.id].status \in Terminal)
       => (resp'.code # 200 /\ alerts' = alerts)]_vars

AllowedTransitions ==
    {<<"pending", "responding">>, <<"responding", "resolved">>,
     <<"pending", "cancelled">>, <<"responding", "cancelled">>}

\* C5: a status request changes the status of a pending or responding alert only
\* along pending->responding, responding->resolved, pending->cancelled and
\* responding->cancelled.
C5_OnlyAllowedTransitions ==
    [][(/\ resp'.op = "patchStatus" /\ resp'.code = 200
        /\ resp'.id \in DOMAIN alerts
        /\ alerts[resp'.id].status \in NonTerminal
        /\ alerts'[resp'.id].status # alerts[resp'.id].status)
       => <<alerts[resp'.id].status, alerts'[resp'.id].status>> \in AllowedTransitions]_vars

\* C6: after a status request succeeded on an alert that holds vehicle v, with the
\* vehicle write not failing, v is 'responding' if the status set is responding and
\* 'available' if it is resolved.
C6_StatusSyncsVehicle ==
    (/\ resp.op = "patchStatus" /\ resp.code = 200 /\ resp.failed = {}
     /\ resp.st \in {"responding", "resolved"}
     /\ alerts[resp.id].assigned_vehicle_id # NULL)
    => vehicles[alerts[resp.id].assigned_vehicle_id]
          = (IF resp.st = "responding" THEN "responding" ELSE "available")

\* C6 witness: a rescuer resolved an alert that holds a vehicle, and the vehicle is
\* available again.
C6_Witness ==
    /\ resp.op = "patchStatus" /\ resp.code = 200 /\ resp.failed = {} /\ resp.st = "resolved"
    /\ resp.role = "rescuer"
    /\ alerts[resp.id].assigned_vehicle_id # NULL
    /\ vehicles[alerts[resp.id].assigned_vehicle_id] = "available"

\* C7: after an assign request naming vehicle v2 succeeded on an alert that held
\* v1 # v2, with no vehicle write failing, the alert holds v2, v1 is 'available'
\* and v2 is 'assigned'.
C7_ReassignFreesPrevious ==
    (/\ resp.op = "assign" /\ resp.code = 200 /\ resp.failed = {}
     /\ resp.veh \in Vehicles /\ resp.prev \in Vehicles /\ resp.prev # resp.veh)
    => /\ alerts[resp.id].assigned_vehicle_id = resp.veh
       /\ vehicles[resp.prev] = "available"
       /\ vehicles[resp.veh] = "assigned"

\* C7 witness: a dispatcher moved an alert from vehicle 1 to vehicle 2.
C7_Witness ==
    /\ resp.op = "assign" /\ resp.code = 200 /\ resp.failed = {} /\ resp.role = "dispatcher"
    /\ resp.prev = 1 /\ resp.veh = 2
    /\ alerts[resp.id].assigned_vehicle_id = 2

\* the table a delete request is about
DeleteTarget(r) == IF r.op = "deleteAlert" THEN alerts ELSE crash_events

CreateTarget(r) ==
    IF r.op = "createAlert" THEN alerts ELSE IF r.op = "createCrash" THEN crash_events ELSE sos_requests

\* C9: the row a create request (alert, crash event, SOS) stored has status pending
\* and, for an alert, no vehicle and no responder, whatever the body carried.
C9_CreatedPending ==
    (resp.op \in {"createAlert", "createCrash", "createSos"} /\ resp.code = 201)
    => /\ resp.id \in DOMAIN CreateTarget(resp)
       /\ CreateTarget(resp)[resp.id].status = "pending"
       /\ resp.op = "createAlert"
             => /\ alerts[resp.id].assigned_vehicle_id = NULL
                /\ alerts[resp.id].assigned_responder_id = NULL

\* C9 witness: an alert was created from a body that carried status 'resolved' and
\* assigned_vehicle_id 1.
C9_Witness ==
    /\ resp.op = "createAlert" /\ resp.code = 201
    /\ resp.st = "resolved" /\ resp.veh = 1
    /\ resp.id \in DOMAIN alerts

\* the ids whose row is in the table before and after the step with another status
StatusChanged(before, after) ==
    {i \in DOMAIN before \cap DOMAIN after : before[i].status # after[i].status}

AssignmentChanged(before, after) ==
    {i \in DOMAIN before \cap DOMAIN after :
        \/ before[i].assigned_vehicle_id # after[i].assigned_vehicle_id
        \/ before[i].assigned_responder_id # after[i].assigned_responder_id}

\* C11: an assign request by an actor who is neither admin nor dispatcher is
\* answered 403 and changes neither the alerts table nor any vehicle's status; the
\* vehicle or responder of a stored alert changes only in a request by an admin or a
\* dispatcher.
C11_AssignGate ==
    [][/\ (resp'.op = "assign" /\ resp'.role \notin {"admin", "dispatcher"})
          => (resp'.code = 403 /\ alerts' = alerts /\ vehicles' = vehicles)
       /\ AssignmentChanged(alerts, alerts') # {}
          => resp'.role \in {"admin", "dispatcher"}]_vars

\* C11 witness: a rescuer was refused the assign of an alert that holds a vehicle.
C11_Witness ==
    /\ resp.op = "assign" /\ resp.code = 403 /\ resp.role = "rescuer"
    /\ resp.id \in DOMAIN alerts
    /\ alerts[resp.id].assigned_vehicle_id # NULL

\* C12: a list request or single get by an actor whose role is not admin,
\* dispatcher or rescuer (that is: user or driver) is answered only with rows the
\* actor owns.
C12_OnlyStaffReadForeign ==
    (resp.op \in ReadOps /\ resp.role \notin {"admin", "dispatcher", "rescuer"})
    => \A r \in resp.data : r.user_id = resp.uid

AlertMutations == {"createAlert", "putAlert", "patchStatus", "assign", "deleteAlert"}

\* C14: an alert mutation request (create, full update, status change, assign,
\* delete) answered 400 or 403 writes nothing and broadcasts nothing: the alerts
\* table, its serial and the vehicles table are the same before and after.
C14_RefusedWritesNothing ==
    [][(resp'.op \in AlertMutations /\ resp'.code \in {400, 403})
       => (/\ alerts' = alerts /\ nextAlertId' = nextAlertId /\ vehicles' = vehicles
           /\ resp'.emit = "none")]_vars

\* C14 witness: a status request on a stored alert that holds a vehicle was refused
\* with 403.
C14_Witness ==
    /\ resp.op = "patchStatus" /\ resp.code = 403
    /\ resp.id \in DOMAIN alerts
    /\ alerts[resp.id].assigned_vehicle_id # NULL

\* C15: a single get, and a status request with a valid status by a permitted role,
\* for an id that matches no stored alert is answered 404.
C15_AbsentIsNotFound ==
    (/\ resp.op \in {"getAlert", "patchStatus"}
     /\ resp.id \notin DOMAIN alerts
     /\ resp.code \notin {400, 403})
    => resp.code = 404

CrashSosMutations == {"createCrash", "putCrash", "patchCrash", "deleteCrash", "createSos"}

EventOf(op) ==
    CASE op = "createAlert" -> "alert:new"
      [] op = "putAlert" -> "alert:updated"
      [] op = "patchStatus" -> "alert:status_updated"
      [] op = "assign" -> "alert:assigned"
      [] op = "deleteAlert" -> "alert:deleted"

C17_NotifierSetBeforeServing ==
    /\ setIOCalls <= 1
    /\ pc \in {"listen", "listening"} => (setIOCalls = 1 /\ getIO(io) = "io")
    /\ resp.op # "none" => (pc = "listening" /\ "getIO" \notin resp.failed)
    /\ io = UNDEFINED => (setIOCalls = 0 /\ getIO(io) = THROWN)

\* C17 witness: the listening server answered a create with a broadcast, setIO
\* having been called once.
C17_Witness ==
    /\ pc = "listening" /\ setIOCalls = 1
    /\ resp.op = "createAlert" /\ resp.code = 201 /\ resp.emit = "alert:new"

\* C18: a status or assign request whose alert write succeeded and one of whose
\* vehicle writes returned an error is answered 200 with the updated alert,
\* broadcasts it, and leaves the alert as updated.
C18_VehicleFailureSwallowed ==
    (resp.op \in {"patchStatus", "assign"} /\ resp.failed \cap {"sync", "free", "assign"} # {})
    => /\ resp.code = 200
       /\ resp.emit = EventOf(resp.op)
       /\ resp.id \in DOMAIN alerts
       /\ resp.data = {Row("alert", resp.id, alerts[resp.id])}
       /\ resp.op = "patchStatus" => alerts[resp.id].status = resp.st
       /\ resp.op = "assign" => alerts[resp.id].assigned_vehicle_id = OrNull(resp.veh)

\* C18 witness: an assign naming vehicle 2 for an alert that held vehicle 1 was
\* answered 200 although both vehicle writes failed; the alert holds vehicle 2 and
\* vehicle 2 is not marked assigned.
C18_Witness ==
    /\ resp.op = "assign" /\ resp.code = 200 /\ resp.failed = {"free", "assign"}
    /\ resp.prev = 1 /\ resp.veh = 2
    /\ alerts[resp.id].assigned_vehicle_id = 2
    /\ vehicles[2] # "assigned"

\* a successful status request that repeats the one just answered
Repeated(r1, r2) ==
    /\ r1.op = "patchStatus" /\ r1.code = 200
    /\ r2.op = "patchStatus" /\ r2.code = 200
    /\ r2.id = r1.id /\ r2.st = r1.st

OwnerChanged(before, after) ==
    {i \in DOMAIN before \cap DOMAIN after : before[i].user_id # after[i].user_id}

\* C20: no request changes the user_id of a stored alert, crash event or SOS
\* request.
C20_OwnerNeverChanges ==
    [][/\ OwnerChanged(alerts, alerts') = {}
       /\ OwnerChanged(crash_events, crash_events') = {}
       /\ OwnerChanged(sos_requests, sos_requests') = {}]_vars

\* C21: a delete request by an admin answered 200 removes the alert's row and
\* nothing else: every vehicle keeps its status (one the alert held stays assigned
\* or responding), and the other tables are untouched.
C21_DeleteWritesNoVehicle ==
    [][(resp'.op = "deleteAlert" /\ resp'.role = "admin" /\ resp'.code = 200)
       => (/\ alerts' = Delete(alerts, resp'.id)
           /\ vehicles' = vehicles
           /\ crash_events' = crash_events /\ sos_requests' = sos_requests)]_vars

\* C21 witness: an admin deleted the last alert and a vehicle is still marked
\* assigned or responding.
C21_Witness ==
    /\ resp.op = "deleteAlert" /\ resp.code = 200 /\ resp.role = "admin"
    /\ nextAlertId > 1 /\ DOMAIN alerts = {}
    /\ \E v \in Vehicles : vehicles[v] \in {"assigned", "responding"}

\* a coordinate that is a number within lim of zero
InRange(c, lim) == c.t = "number" /\ c.v >= -lim /\ c.v <= lim

\* C23: a crash or SOS report whose latitude and longitude are both in-range
\* numbers (0 included), and which names its type where one is required, is
\* answered 201 and stored.
C23_InRangeReportAccepted ==
    (/\ resp.op \in {"createCrash", "createSos"}
     /\ InRange(resp.arg.latitude, 90) /\ InRange(resp.arg.longitude, 180)
     /\ resp.op = "createSos" => ~Falsy(resp.arg.type))
    => (resp.code = 201 /\ resp.id \in DOMAIN CreateTarget(resp))

C25_OmissionClears ==
    [][/\ (/\ resp'.op = "assign" /\ resp'.code = 200 /\ resp'.failed = {}
           /\ resp'.veh = UNDEF
           /\ alerts[resp'.id].assigned_vehicle_id \in Vehicles)
          => /\ alerts'[resp'.id].assigned_vehicle_id = NULL
             /\ vehicles'[alerts[resp'.id].assigned_vehicle_id] = "available"
             /\ \A v \in Vehicles : vehicles'[v] = "assigned" => vehicles[v] = "assigned"
       /\ (resp'.op = "assign" /\ resp'.code = 200 /\ resp'.rsp = UNDEF)
          => alerts'[resp'.id].assigned_responder_id = NULL]_vars

\* C25 witness: an assign naming neither vehicle nor responder was answered 200 for
\* an alert that held vehicle 1; the alert holds nothing and vehicle 1 is available.
C25_Witness ==
    /\ resp.op = "assign" /\ resp.code = 200 /\ resp.failed = {}
    /\ resp.veh = UNDEF /\ resp.rsp = UNDEF /\ resp.prev = 1
    /\ alerts[resp.id].assigned_vehicle_id = NULL
    /\ alerts[resp.id].assigned_responder_id = NULL
    /\ vehicles[1] = "available"

\* C30: the record a successful assign request naming a vehicle answers with and
\* broadcasts embeds the status the vehicle has in the store once the request is
\* done.
C30_EmbeddedVehicleCurrent ==
    (resp.op = "assign" /\ resp.code = 200 /\ resp.veh \in Vehicles)
    => resp.vst = vehicles[resp.veh]

\* C28: every vehicle marked assigned or responding is the assigned vehicle of some
\* alert whose status is pending or responding (no alert is ever deleted here).
C28_BusyVehicleIsHeld ==
    \A v \in Vehicles : vehicles[v] \in {"assigned", "responding"} => ActiveHolders(v) # {}

\* C29: the vehicle a pending alert holds is marked assigned, and the vehicle a
\* responding alert holds is marked responding.
C29_VehicleFollowsIncident ==
    \A i \in DOMAIN alerts :
        alerts[i].assigned_vehicle_id \in Vehicles
        => /\ alerts[i].status = "pending" => vehicles[alerts[i].assigned_vehicle_id] = "assigned"
           /\ alerts[i].status = "responding" => vehicles[alerts[i].assigned_vehicle_id] = "responding"

\* a vehicle that an alert references is 'available', or a vehicle that no alert
\* references is 'assigned'
Inconsistent ==
    \E v \in Vehicles :
        \/ vehicles[v] = "available" /\ \E i \in DOMAIN alerts : alerts[i].assigned_vehicle_id = v
        \/ vehicles[v] = "assigned" /\ \A i \in DOMAIN alerts : alerts[i].assigned_vehicle_id # v

\* both requests were answered
Final == \A p \in Requests : inflight[p].pc = "done"

\* C22: two assign requests on fresh alerts end with a referenced vehicle
\* 'available' or an unreferenced vehicle 'assigned' only if they overlapped: one
\* began between two store calls of the other. Nothing excludes the overlap (the
\* witness): the inconsistent final state is reached.
C22_OnlyOverlapBreaksPair ==
    (Final /\ Inconsistent) => \E p \in Requests : inflight[p].lap

\* C22 witness: both requests were answered 200, one of them began while the other
\* was under way, and a vehicle no alert references is 'assigned'.
C22_Witness ==
    /\ Final /\ \E p \in Requests : inflight[p].lap
    /\ \A p \in Requests : inflight[p].op = "assign" /\ inflight[p].upd # NoRow
    /\ \E v \in Vehicles :
          vehicles[v] = "assigned" /\ \A i \in DOMAIN alerts : alerts[i].assigned_vehicle_id # v

\* C26: each user has at most one contact with is_primary true.
C26_OnePrimaryPerUser ==
    \A c, k \in DOMAIN emergency_contacts :
        (/\ emergency_contacts[c].is_primary /\ emergency_contacts[k].is_primary
         /\ emergency_contacts[c].user_id = emergency_contacts[k].user_id)
        => c = k

\* C27: a user-management request that an admin issues on the admin's own id
\* leaves the admin's row in place with the role it had.
C27_AdminKeepsOwnRow ==
    [][(/\ resp'.op \in {"putUser", "patchRole", "deleteUser"}
        /\ resp'.role = "admin" /\ resp'.id = resp'.uid
        /\ resp'.uid \in DOMAIN users)
       => (resp'.uid \in DOMAIN users' /\ users'[resp'.uid] = users[resp'.uid])]_vars

====
